---- MODULE Spec2Model ----
(***************************************************************************)
(* InstancesSet of python-orthanc-api-client: a client-side snapshot of    *)
(* the instances of a study, and the Orthanc server it talks to.           *)
(*                                                                         *)
(* The client is single-threaded: it runs one InstancesSet operation at a  *)
(* time (pc), and every remote call of an operation is one step, so that   *)
(* other clients of the server (the Server* actions) interleave between    *)
(* the remote calls of from_study, from_series, modify and                 *)
(* process_instances.                                                      *)
(***************************************************************************)
EXTENDS Integers, Sequences, FiniteSets, TLC

VARIABLES
    srv,    \* the server: series id -> ordered instance ids of the series
    ever,   \* instance ids that have ever been stored on the server
    heap,   \* the InstancesSet the caller works with: <<>> before the first one
    late,   \* for it: instance ids that reached the server after it was built
    pc,     \* the operation the client is in the middle of
    last    \* what the last completed client call did and returned

vars == <<srv, ever, heap, late, pc, last>>

(***************************************************************************)
(* Bounds                                                                  *)
(***************************************************************************)
MaxAll == 3           \* length of a flattened list that add_series still extends
MaxStudiesResp == 2   \* Study entries in a bulk-modify response
MaxSeriesResp == 2    \* Series entries in a bulk-modify response
MaxInstancesResp == 2 \* Instance entries in a bulk-modify response

(***************************************************************************)
(* The resources of the server.  Orthanc identifiers are hashes of the     *)
(* DICOM identifiers, so the series of an instance and the study of a      *)
(* series are functions of the identifier.                                 *)
(***************************************************************************)
SeriesOrder == <<"A", "B", "Am", "Bm">>
SeriesIds == {SeriesOrder[k] : k \in 1..Len(SeriesOrder)}
StudyIds == {"S1", "S2"}
InstanceIds == {"a1", "a2", "b1", "a1m", "b1m", "xm"}

StudyOf(s) == IF s \in {"A", "B"} THEN "S1" ELSE "S2"

SeriesOf(i) ==
    CASE i \in {"a1", "a2"} -> "A"
      [] i = "b1" -> "B"
      [] i \in {"a1m", "xm"} -> "Am"
      [] OTHER -> "Bm"

\* the instance a modification of i creates (i itself when the server has none)
ModifiedId(i) ==
    CASE i = "a1" -> "a1m"
      [] i = "b1" -> "b1m"
      [] OTHER -> i

(***************************************************************************)
(* Sequences and insertion-ordered dictionaries (python dict)              *)
(***************************************************************************)
Range(q) == {q[k] : k \in 1..Len(q)}

RECURSIVE SumLen(_)
SumLen(d) == IF d = <<>> THEN 0 ELSE Len(d[1][2]) + SumLen(Tail(d))

RECURSIVE Flatten(_)
Flatten(d) == IF d = <<>> THEN <<>> ELSE d[1][2] \o Flatten(Tail(d))

DictKeys(d) == [k \in 1..Len(d) |-> d[k][1]]
DictHas(d, key) == \E k \in 1..Len(d) : d[k][1] = key
DictGet(d, key) == d[CHOOSE k \in 1..Len(d) : d[k][1] = key][2]
DictSet(d, key, val) ==
    IF DictHas(d, key)
    THEN [k \in 1..Len(d) |-> IF d[k][1] = key THEN <<key, val>> ELSE d[k]]
    ELSE Append(d, <<key, val>>)
DictDel(d, key) == SelectSeq(d, LAMBDA e : e[1] # key)

\* filter_instances without its loop over series_to_delete
DictDelNone(d, keys) == d

\* for s in keys: del d[s]
RECURSIVE DictDelAll(_, _)
DictDelAll(d, keys) ==
    IF keys = <<>> THEN d ELSE DictDelAll(DictDel(d, keys[1]), Tail(keys))

\* list.remove(x): drops the first occurrence of x
\* (a ValueError when x is absent, which no caller below runs into: every
\* identifier of a per-series list is in the flattened list as well)
ListRemove(q, x) ==
    IF x \notin Range(q) THEN q
    ELSE LET k == CHOOSE j \in 1..Len(q) : q[j] = x /\ \A h \in 1..(j - 1) : q[h] # x
         IN  SubSeq(q, 1, k - 1) \o SubSeq(q, k + 1, Len(q))

RECURSIVE ListRemoveAll(_, _)
ListRemoveAll(q, xs) ==
    IF xs = <<>> THEN q ELSE ListRemoveAll(ListRemove(q, xs[1]), Tail(xs))

\* the orders in which list(set) may enumerate a set
Perms(S) == {q \in [1..Cardinality(S) -> S] : Range(q) = S}

(***************************************************************************)
(* The server                                                              *)
(***************************************************************************)
Present(sv) == UNION {Range(sv[s]) : s \in DOMAIN sv}

ServerStore(sv, i) ==
    IF SeriesOf(i) \in DOMAIN sv
    THEN [sv EXCEPT ![SeriesOf(i)] = Append(@, i)]
    ELSE [s \in DOMAIN sv \cup {SeriesOf(i)} |->
            IF s = SeriesOf(i) THEN <<i>> ELSE sv[s]]

\* a series that loses its last instance is removed with it
ServerDrop(sv, i) ==
    LET s == SeriesOf(i)
        rest == SelectSeq(sv[s], LAMBDA x : x # i)
    IN  IF rest = <<>>
        THEN [t \in DOMAIN sv \ {s} |-> sv[t]]
        ELSE [sv EXCEPT ![s] = rest]

\* GET /studies/{id}: the "Series" list of the study
StudySeriesIds(sv, study) ==
    SelectSeq(SeriesOrder, LAMBDA s : s \in DOMAIN sv /\ StudyOf(s) = study)

\* series -> set of instances of one study, as the server has it
StudyView(sv, study) ==
    [s \in {t \in DOMAIN sv : StudyOf(t) = study} |-> Range(sv[s])]

(***************************************************************************)
(* InstancesSet                                                            *)
(***************************************************************************)
\* The fields of an InstancesSet.  id is the identity of the object, and
\* with it of the list and the dict that __init__ creates for it and that no
\* statement rebinds; lists gives, for every key of _by_series, the list
\* object that the key refers to.  id 0: no object.
NewSet ==
    [study_id |-> "None", by_series |-> <<>>, all_instances_ids |-> <<>>,
     id |-> 0, lists |-> <<>>]

\* A list object that a collection gets for one of its keys: the collection
\* binds the key to a list that the call in progress has just received or
\* built, so the list is named after the collection and the key.
NewList(id, series_id) == <<id, series_id>>

\* the list objects that the keys of a collection refer to
Addresses(c) == {c.lists[k][2] : k \in 1..Len(c.lists)}

\* the identity of a new object: one that no object of used has
Alloc(used) ==
    CHOOSE a \in 1..(Cardinality(used) + 1) :
        /\ a \notin used
        /\ \A b \in 1..(a - 1) : b \in used

_add_series(c, series_id, instances_ids) ==
    [c EXCEPT !.by_series = DictSet(@, series_id, instances_ids),
              !.lists = DictSet(@, series_id, NewList(c.id, series_id)),
              !.all_instances_ids = @ \o instances_ids]

instances_ids(c) == c.all_instances_ids
series_ids(c) == DictKeys(c.by_series)
get_instances_ids(c, series_id) ==
    IF DictHas(c.by_series, series_id) THEN DictGet(c.by_series, series_id) ELSE <<>>

\* series -> set of instances of a collection
Content(c) ==
    [s \in Range(DictKeys(c.by_series)) |-> Range(DictGet(c.by_series, s))]

Idle ==
    [op |-> "idle", target |-> 0, pre |-> NewSet, obj |-> NewSet, todo |-> <<>>,
     studies |-> <<>>, series |-> <<>>, instances |-> <<>>, done |-> <<>>,
     hist |-> {}, added |-> {}, queried |-> <<>>,
     k |-> 0, std |-> <<>>, itd |-> <<>>, keep |-> {}, evals |-> 0]

\* the record of a completed call; fields a call does not use keep these values
Call(name, target, outcome) ==
    [name |-> name, target |-> target, outcome |-> outcome,
     pre |-> NewSet, ret |-> NewSet, value |-> <<>>, keep |-> {}, posts |-> <<>>,
     status |-> 0, studies |-> <<>>, series |-> <<>>, instances |-> <<>>,
     processed |-> <<>>, added |-> {}, queried |-> <<>>, evals |-> 0]

\* the collections that the caller or the operation in progress refers to
Live ==
    ({heap[o].id : o \in DOMAIN heap} \cup {pc.obj.id, last.ret.id}) \ {0}

\* InstancesSet(api_client)
New == [NewSet EXCEPT !.id = Alloc(Live)]

\* what an operation in progress sees of the other clients' changes
Observe(p, sv, arrived) ==
    CASE p.op = "from_study" ->
            [p EXCEPT !.hist = @ \cup {StudyView(sv, p.obj.study_id)}]
      [] p.op = "modify" -> [p EXCEPT !.added = @ \cup arrived]
      [] OTHER -> p

\* the caller goes on with the collection a factory has returned
Keep(c) ==
    /\ heap' = <<c>>
    /\ late' = <<{}>>

(***************************************************************************)
(* Other clients of the server                                             *)
(***************************************************************************)
ServerAddInstance(i) ==
    /\ i \notin ever
    /\ srv' = ServerStore(srv, i)
    /\ ever' = ever \cup {i}
    /\ late' = [o \in DOMAIN late |-> late[o] \cup {i}]
    /\ pc' = Observe(pc, srv', {i})
    /\ UNCHANGED <<heap, last>>

ServerRemoveInstance(i) ==
    /\ i \in Present(srv)
    /\ srv' = ServerDrop(srv, i)
    /\ pc' = Observe(pc, srv', {})
    /\ UNCHANGED <<ever, heap, late, last>>

(***************************************************************************)
(* Construction                                                            *)
(***************************************************************************)
\* the Series and Instance objects a caller may hand to a factory: it has
\* fetched them earlier, with their parent references, of resources the
\* server had then
SeriesObjects == {SeriesOf(i) : i \in ever}
InstanceObjects == ever

\* the Study objects a caller may hand to from_study: it has fetched them
\* earlier, with the series the study had then (info.series_ids)
NoStudy == [orthanc_id |-> "None", series_ids |-> <<>>]
StudyObjects ==
    UNION {{[orthanc_id |-> st,
             series_ids |-> SelectSeq(SeriesOrder, LAMBDA s : s \in T)] :
               T \in (SUBSET {s \in SeriesObjects : StudyOf(s) = st}) \ {{}}} :
           st \in StudyIds}

\* from_study, up to the series of the study (study.info.series_ids); study
\* is NoStudy when the caller passes the identifier only, and the series
\* list is then asked of the server
FromStudyLookup(study_id, study) ==
    /\ pc.op = "idle"
    /\ (study = NoStudy) # (study_id = "None")
    /\ LET orthanc_id == IF study = NoStudy THEN study_id ELSE study.orthanc_id
           series == IF study = NoStudy
                     THEN StudySeriesIds(srv, study_id)
                     ELSE study.series_ids
       IN  IF series = <<>>
           THEN /\ pc' = Idle
                /\ last' = Call("from_study", 0, "raise")
           ELSE /\ pc' = [Idle EXCEPT !.op = "from_study",
                                      !.obj = [New EXCEPT !.study_id = orthanc_id],
                                      !.todo = series,
                                      !.hist = {StudyView(srv, orthanc_id)}]
                /\ last' = last
    /\ UNCHANGED <<srv, ever, heap, late>>

\* from_study, one turn of the loop: add_series of the next series, and the
\* return after the last one
FromStudyAddSeries ==
    /\ pc.op = "from_study"
    /\ LET series_id == Head(pc.todo) IN
       IF series_id \notin DOMAIN srv
       THEN /\ pc' = Idle
            /\ last' = Call("from_study", 0, "raise")
            /\ UNCHANGED <<heap, late>>
       ELSE LET obj == _add_series(pc.obj, series_id, srv[series_id]) IN
            IF Len(pc.todo) > 1
            THEN /\ pc' = [pc EXCEPT !.obj = obj, !.todo = Tail(@)]
                 /\ UNCHANGED <<heap, late, last>>
            ELSE /\ Keep(obj)
                 /\ pc' = Idle
                 /\ last' = [Call("from_study", 1, "return")
                                EXCEPT !.ret = obj]
    /\ UNCHANGED <<srv, ever>>

\* from_series, up to the study identifier (series.study.orthanc_id); series
\* is "None" when the caller passes the identifier only, and the parent is
\* then asked of the server
FromSeriesLookup(series_id, series) ==
    /\ pc.op = "idle"
    /\ (series = "None") # (series_id = "None")
    /\ LET orthanc_id == IF series = "None" THEN series_id ELSE series IN
       IF series = "None" /\ orthanc_id \notin DOMAIN srv
       THEN /\ pc' = Idle
            /\ last' = Call("from_series", 0, "raise")
       ELSE /\ pc' = [Idle EXCEPT !.op = "from_series",
                                  !.obj = [New EXCEPT !.study_id = StudyOf(orthanc_id)],
                                  !.todo = <<orthanc_id>>]
            /\ last' = last
    /\ UNCHANGED <<srv, ever, heap, late>>

\* from_series, its add_series and the return
FromSeriesAddSeries ==
    /\ pc.op = "from_series"
    /\ LET series_id == Head(pc.todo) IN
       IF series_id \notin DOMAIN srv
       THEN /\ last' = Call("from_series", 0, "raise")
            /\ UNCHANGED <<heap, late>>
       ELSE LET obj == _add_series(pc.obj, series_id, srv[series_id]) IN
            /\ Keep(obj)
            /\ last' = [Call("from_series", 1, "return")
                           EXCEPT !.ret = obj]
    /\ pc' = Idle
    /\ UNCHANGED <<srv, ever>>

\* from_instance; instance is "None" when the caller passes the identifier
\* only: api_client.instances.get is then called, which Instances does not
\* define (AttributeError).  An Instance object gives its identifier and
\* those of its parents without a request to the server.
from_instance(instance_id, instance) ==
    /\ pc.op = "idle"
    /\ (instance = "None") # (instance_id = "None")
    /\ IF instance = "None"
       THEN /\ last' = Call("from_instance", 0, "raise")
            /\ UNCHANGED <<heap, late>>
       ELSE LET obj == [New EXCEPT
                           !.study_id = StudyOf(SeriesOf(instance)),
                           !.by_series = <<<<SeriesOf(instance), <<instance>>>>>>,
                           !.lists = <<<<SeriesOf(instance),
                                         NewList(New.id, SeriesOf(instance))>>>>,
                           !.all_instances_ids = <<instance>>] IN
            /\ Keep(obj)
            /\ last' = [Call("from_instance", 1, "return")
                           EXCEPT !.ret = obj]
    /\ UNCHANGED <<srv, ever, pc>>

add_series(o, series_id) ==
    /\ pc.op = "idle"
    /\ Len(heap[o].all_instances_ids) < MaxAll
    /\ IF series_id \notin DOMAIN srv
       THEN /\ last' = Call("add_series", o, "raise")
            /\ UNCHANGED <<heap, late>>
       ELSE /\ heap' = [heap EXCEPT ![o] = _add_series(@, series_id, srv[series_id])]
            /\ late' = [late EXCEPT ![o] = @ \ Range(srv[series_id])]
            /\ last' = Call("add_series", o, "return")
    /\ UNCHANGED <<srv, ever, pc>>

(***************************************************************************)
(* Accessors                                                               *)
(***************************************************************************)
instances_ids_call(o) ==
    /\ pc.op = "idle"
    /\ last' = [Call("instances_ids", o, "return")
                   EXCEPT !.value = instances_ids(heap[o])]
    /\ UNCHANGED <<srv, ever, heap, late, pc>>

series_ids_call(o) ==
    /\ pc.op = "idle"
    /\ last' = [Call("series_ids", o, "return")
                   EXCEPT !.value = series_ids(heap[o])]
    /\ UNCHANGED <<srv, ever, heap, late, pc>>

get_instances_ids_call(o, series_id) ==
    /\ pc.op = "idle"
    /\ last' = [Call("get_instances_ids", o, "return")
                   EXCEPT !.value = get_instances_ids(heap[o], series_id)]
    /\ UNCHANGED <<srv, ever, heap, late, pc>>

(***************************************************************************)
(* filter_instances                                                        *)
(***************************************************************************)
\* filter_instances is a sequence of steps: the filter is the caller's, it is
\* handed the api client and may wait for the server, so that other clients
\* act between its calls.  A step is one call of the filter together with
\* the statements of filter_instances that follow it, up to the next call.
\* Of the call in progress pc has: k, the position in self._by_series.items();
\* todo, what is left of the list of that entry, the call being for its
\* head; itd, instances_to_delete; std, series_to_delete; obj, filtered;
\* keep, the instances for which the filter has been true, and evals, the
\* number of calls that have returned.
FilterResults == {"True", "False", "raise"}

\* From the k-th entry of self._by_series.items() on, as far as the next
\* call of the filter, or as the return when no entry is left.  An entry
\* with an empty list has no instance to hand to the filter: nothing is
\* removed, the series is noted in series_to_delete and filtered gets an
\* empty list for it.
RECURSIVE FilterNext(_, _, _, _)
FilterNext(self, filtered, std, k) ==
    IF k > Len(self.by_series)
    THEN [self |-> [self EXCEPT !.by_series = DictDelAll(@, std),
                                !.lists = DictDelAll(@, std)],
          filtered |-> filtered, std |-> std, k |-> k, returns |-> TRUE]
    ELSE IF self.by_series[k][2] # <<>>
    THEN [self |-> self, filtered |-> filtered, std |-> std, k |-> k,
          returns |-> FALSE]
    ELSE FilterNext(self, _add_series(filtered, self.by_series[k][1], <<>>),
                    Append(std, self.by_series[k][1]), k + 1)

\* the end of the turn for the k-th entry without
\* self._all_instances_ids.remove(i)
FilterSeriesEndKeepsFlat(self, filtered, std, k, instances_to_delete) ==
    LET series_id == self.by_series[k][1]
        left == ListRemoveAll(self.by_series[k][2], instances_to_delete)
        self1 == [self EXCEPT !.by_series[k] = <<series_id, left>>]
    IN  FilterNext(self1, _add_series(filtered, series_id, instances_to_delete),
                   IF left = <<>> THEN Append(std, series_id) ELSE std, k + 1)

\* The end of the turn for the k-th entry, once the filter has been called
\* for each of its instances: the removals, series_to_delete and
\* filtered._add_series, and then on to the next entry.
FilterSeriesEnd(self, filtered, std, k, instances_to_delete) ==
    LET series_id == self.by_series[k][1]
        left == ListRemoveAll(self.by_series[k][2], instances_to_delete)
        self1 == [self EXCEPT
                     !.by_series[k] = <<series_id, left>>,
                     !.all_instances_ids = ListRemoveAll(@, instances_to_delete)]
    IN  FilterNext(self1, _add_series(filtered, series_id, instances_to_delete),
                   IF left = <<>> THEN Append(std, series_id) ELSE std, k + 1)

\* filter_instances up to the first call of the filter; it returns at once
\* when the collection has no instance to hand to the filter
FilterBegin(o) ==
    /\ pc.op = "idle"
    /\ LET n == FilterNext(heap[o], [New EXCEPT !.study_id = heap[o].study_id],
                           <<>>, 1) IN
       /\ heap' = [heap EXCEPT ![o] = n.self]
       /\ IF n.returns
          THEN /\ pc' = Idle
               /\ last' = [Call("filter_instances", o, "return")
                              EXCEPT !.pre = heap[o], !.ret = n.filtered]
          ELSE /\ pc' = [Idle EXCEPT !.op = "filter_instances", !.target = o,
                                     !.pre = heap[o], !.obj = n.filtered,
                                     !.k = n.k, !.std = n.std,
                                     !.todo = n.self.by_series[n.k][2]]
               /\ last' = last
    /\ UNCHANGED <<srv, ever, late>>

\* one call of the filter, which is true or false of the instance or raises,
\* and filter_instances from there to its next call of the filter or to its
\* return
FilterCall(result) ==
    /\ pc.op = "filter_instances"
    /\ LET o == pc.target
           instance_id == Head(pc.todo)
           instances_to_delete ==
               IF result = "False" THEN Append(pc.itd, instance_id) ELSE pc.itd
           keep == IF result = "True" THEN pc.keep \cup {instance_id} ELSE pc.keep
           evals == pc.evals + 1
           call == [Call("filter_instances", o, "raise")
                       EXCEPT !.pre = pc.pre, !.keep = keep, !.evals = evals]
       IN
       IF result = "raise"
       THEN /\ pc' = Idle
            /\ last' = call
            /\ heap' = heap
       ELSE IF Len(pc.todo) > 1
       THEN /\ pc' = [pc EXCEPT !.todo = Tail(@), !.itd = instances_to_delete,
                                !.keep = keep, !.evals = evals]
            /\ last' = last
            /\ heap' = heap
       ELSE LET n == FilterSeriesEnd(heap[o], pc.obj, pc.std, pc.k,
                                     instances_to_delete) IN
            /\ heap' = [heap EXCEPT ![o] = n.self]
            /\ IF n.returns
               THEN /\ pc' = Idle
                    /\ last' = [call EXCEPT !.outcome = "return",
                                            !.ret = n.filtered]
               ELSE /\ pc' = [pc EXCEPT !.obj = n.filtered, !.k = n.k,
                                        !.std = n.std,
                                        !.todo = n.self.by_series[n.k][2],
                                        !.itd = <<>>, !.keep = keep,
                                        !.evals = evals]
                    /\ last' = last
    /\ UNCHANGED <<srv, ever, late>>

\* the caller goes on with the collection of removed instances that
\* filter_instances has just returned
UseReturned ==
    /\ pc.op = "idle"
    /\ last.name = "filter_instances"
    /\ last.outcome = "return"
    /\ heap' = <<last.ret>>
    /\ last' = Call("none", 0, "return")
    /\ UNCHANGED <<srv, ever, late, pc>>

(***************************************************************************)
(* delete                                                                  *)
(***************************************************************************)
\* api_client.post, by the contract of the two requests: a bulk-delete
\* request that the server rejects is a failure of the call, which raises;
\* the response to a bulk-modify request comes back with its status
PostRaises(endpoint, status) == endpoint = "tools/bulk-delete" /\ status # 200

RECURSIVE ServerDropAll(_, _)
ServerDropAll(sv, ids) ==
    IF ids = <<>> THEN sv
    ELSE ServerDropAll(IF ids[1] \in Present(sv) THEN ServerDrop(sv, ids[1]) ELSE sv,
                       Tail(ids))

\* POST tools/bulk-delete on the server
BulkDelete(sv, resources, status) ==
    IF status = 200 THEN ServerDropAll(sv, resources) ELSE sv

\* delete with the call of api_client.post in a try block that drops the
\* failure
deleteQuietly(o, status) ==
    /\ pc.op = "idle"
    /\ LET request == [endpoint |-> "tools/bulk-delete",
                       Resources |-> instances_ids(heap[o])] IN
       /\ srv' = BulkDelete(srv, request.Resources, status)
       /\ last' = [Call("delete", o, "return")
                      EXCEPT !.posts = <<request>>, !.status = status]
    /\ UNCHANGED <<ever, heap, late, pc>>

delete(o, status) ==
    /\ pc.op = "idle"
    /\ LET request == [endpoint |-> "tools/bulk-delete",
                       Resources |-> instances_ids(heap[o])] IN
       /\ srv' = BulkDelete(srv, request.Resources, status)
       /\ last' = [Call("delete", o,
                        IF PostRaises(request.endpoint, status) THEN "raise" ELSE "return")
                      EXCEPT !.posts = <<request>>, !.status = status]
    /\ UNCHANGED <<ever, heap, late, pc>>

(***************************************************************************)
(* process_instances                                                       *)
(***************************************************************************)
\* process_instances over what the study holds on the server by now
ProcessBeginLive(o) ==
    LET live == Flatten([k \in 1..Len(StudySeriesIds(srv, heap[o].study_id)) |->
                            <<StudySeriesIds(srv, heap[o].study_id)[k],
                              srv[StudySeriesIds(srv, heap[o].study_id)[k]]>>])
    IN  /\ pc.op = "idle"
        /\ IF live = <<>>
           THEN /\ pc' = Idle
                /\ last' = Call("process_instances", o, "return")
           ELSE /\ pc' = [Idle EXCEPT !.op = "process_instances", !.target = o,
                                      !.todo = live]
                /\ last' = last
        /\ UNCHANGED <<srv, ever, heap, late>>

ProcessBegin(o) ==
    /\ pc.op = "idle"
    /\ IF heap[o].all_instances_ids = <<>>
       THEN /\ pc' = Idle
            /\ last' = Call("process_instances", o, "return")
       ELSE /\ pc' = [Idle EXCEPT !.op = "process_instances", !.target = o,
                                  !.todo = heap[o].all_instances_ids]
            /\ last' = last
    /\ UNCHANGED <<srv, ever, heap, late>>

\* one call of the processor, which returns or raises
ProcessCall(fails) ==
    /\ pc.op = "process_instances"
    /\ LET done == Append(pc.done, Head(pc.todo)) IN
       IF fails
       THEN /\ pc' = Idle
            /\ last' = [Call("process_instances", pc.target, "raise")
                           EXCEPT !.processed = done]
       ELSE IF Len(pc.todo) > 1
            THEN /\ pc' = [pc EXCEPT !.todo = Tail(@), !.done = done]
                 /\ last' = last
            ELSE /\ pc' = Idle
                 /\ last' = [Call("process_instances", pc.target, "return")
                                EXCEPT !.processed = done]
    /\ UNCHANGED <<srv, ever, heap, late>>

(***************************************************************************)
(* modify                                                                  *)
(***************************************************************************)
Entries(type, ids) == [k \in 1..Len(ids) |-> [Type |-> type, ID |-> ids[k]]]

\* the identifiers of one type in rjson['Resources'], in their order
OfType(resources, type) ==
    LET sel == SelectSeq(resources, LAMBDA r : r.Type = type)
    IN  [k \in 1..Len(sel) |-> sel[k].ID]

SeqsUpTo(S, n) == UNION {[1..m -> S] : m \in 0..n}

\* the bodies a bulk-modify response may have: it names resources of the
\* modified study that the server has or has had
Responses(known) ==
    {Entries("Study", st) \o Entries("Series", se) \o Entries("Instance", ins) :
        st \in SeqsUpTo({"S2"}, MaxStudiesResp),
        se \in SeqsUpTo({"Am", "Bm"}, MaxSeriesResp),
        ins \in SeqsUpTo(known \cap {"a1m", "b1m"}, MaxInstancesResp)}

\* POST tools/bulk-modify on the server: it stores a modified copy of every
\* requested instance it has, in the order of the request
RECURSIVE BulkModifyStore(_, _, _)
BulkModifyStore(sv, known, resources) ==
    IF resources = <<>> THEN sv
    ELSE LET m == ModifiedId(resources[1]) IN
         IF resources[1] \in Present(sv) /\ m \notin known
         THEN BulkModifyStore(ServerStore(sv, m), known \cup {m}, Tail(resources))
         ELSE BulkModifyStore(sv, known, Tail(resources))

BulkModify(sv, known, resources, keep_source, status) ==
    IF status # 200 THEN sv
    ELSE LET stored == BulkModifyStore(sv, known, resources)
         IN  IF keep_source THEN stored
             ELSE ServerDropAll(stored, SelectSeq(resources, LAMBDA i : ModifiedId(i) # i))

\* modify, up to the three checks of the response
ModifyPost(o, status, keep_source, resources) ==
    /\ pc.op = "idle"
    /\ LET request == [endpoint |-> "tools/bulk-modify",
                       Resources |-> instances_ids(heap[o])]
           modified_studies_ids == OfType(resources, "Study")
           modified_series_ids == OfType(resources, "Series")
           modified_instances_ids == OfType(resources, "Instance")
           call == [Call("modify", o, "none")
                       EXCEPT !.pre = heap[o], !.posts = <<request>>, !.status = status,
                              !.studies = modified_studies_ids,
                              !.series = modified_series_ids,
                              !.instances = modified_instances_ids]
       IN
       /\ srv' = BulkModify(srv, ever, request.Resources, keep_source, status)
       /\ ever' = ever \cup Present(srv')
       /\ late' = [x \in DOMAIN late |-> late[x] \cup (Present(srv') \ ever)]
       /\ IF PostRaises(request.endpoint, status)
          THEN /\ pc' = Idle
               /\ last' = [call EXCEPT !.outcome = "raise"]
          ELSE IF \/ status # 200
                  \/ Len(modified_studies_ids) # 1
                  \/ Len(modified_series_ids) # Len(DictKeys(heap[o].by_series))
                  \/ Len(modified_instances_ids) # Len(heap[o].all_instances_ids)
          THEN /\ pc' = Idle
               /\ last' = call
          ELSE IF modified_series_ids = <<>>
          THEN /\ pc' = Idle
               /\ last' = [call EXCEPT !.outcome = "return",
                                       !.ret = [New EXCEPT !.study_id = modified_studies_ids[1]]]
          ELSE /\ pc' = [Idle EXCEPT !.op = "modify", !.target = o, !.pre = heap[o],
                                     !.obj = New,
                                     !.todo = modified_series_ids,
                                     !.studies = modified_studies_ids,
                                     !.series = modified_series_ids,
                                     !.instances = modified_instances_ids]
               /\ last' = last
    /\ UNCHANGED heap

\* every instance the re-queried series holds by now
SeriesInstancesAll(series_all_instances_ids, modified_instances_ids) ==
    series_all_instances_ids

\* the instances of a re-queried series that come from the modification
SeriesInstances(series_all_instances_ids, modified_instances_ids) ==
    series_all_instances_ids \cap Range(modified_instances_ids)

\* the same turn, assigning the study identifier to self instead of
\* modified_set
ModifyRequeryOnSelf ==
    /\ pc.op = "modify"
    /\ LET s == Head(pc.todo)
           request == [endpoint |-> "tools/bulk-modify",
                       Resources |-> instances_ids(pc.pre)]
           call == [Call("modify", pc.target, "raise")
                       EXCEPT !.pre = pc.pre, !.posts = <<request>>, !.status = 200,
                              !.studies = pc.studies, !.series = pc.series,
                              !.instances = pc.instances, !.added = pc.added]
       IN
       IF s \notin DOMAIN srv
       THEN /\ pc' = Idle
            /\ last' = [call EXCEPT !.queried = pc.queried]
            /\ heap' = heap
       ELSE \E series_instances_ids \in Perms(SeriesInstances(Range(srv[s]), pc.instances)) :
            LET queried == DictSet(pc.queried, s, srv[s])
                modified_set ==
                    [pc.obj EXCEPT
                        !.by_series = DictSet(@, s, series_instances_ids),
                        !.lists = DictSet(@, s, NewList(pc.obj.id, s)),
                        !.all_instances_ids = @ \o series_instances_ids]
            IN
            /\ IF Len(pc.todo) > 1
               THEN /\ pc' = [pc EXCEPT !.obj = modified_set, !.todo = Tail(@),
                                        !.queried = queried]
                    /\ last' = last
                    /\ heap' = heap
               ELSE /\ pc' = Idle
                    /\ heap' = [heap EXCEPT ![pc.target].study_id = pc.studies[1]]
                    /\ last' = [call EXCEPT
                                   !.outcome = "return", !.queried = queried,
                                   !.ret = modified_set]
    /\ UNCHANGED <<srv, ever, late>>

\* modify, one turn of the loop over modified_series_ids, and the return
\* after the last one
ModifyRequery ==
    /\ pc.op = "modify"
    /\ LET s == Head(pc.todo)
           request == [endpoint |-> "tools/bulk-modify",
                       Resources |-> instances_ids(pc.pre)]
           call == [Call("modify", pc.target, "raise")
                       EXCEPT !.pre = pc.pre, !.posts = <<request>>, !.status = 200,
                              !.studies = pc.studies, !.series = pc.series,
                              !.instances = pc.instances, !.added = pc.added]
       IN
       IF s \notin DOMAIN srv
       THEN /\ pc' = Idle
            /\ last' = [call EXCEPT !.queried = pc.queried]
       ELSE \E series_instances_ids \in Perms(SeriesInstances(Range(srv[s]), pc.instances)) :
            LET queried == DictSet(pc.queried, s, srv[s])
                modified_set ==
                    [pc.obj EXCEPT
                        !.by_series = DictSet(@, s, series_instances_ids),
                        !.lists = DictSet(@, s, NewList(pc.obj.id, s)),
                        !.all_instances_ids = @ \o series_instances_ids]
            IN
            /\ IF Len(pc.todo) > 1
               THEN /\ pc' = [pc EXCEPT !.obj = modified_set, !.todo = Tail(@),
                                        !.queried = queried]
                    /\ last' = last
               ELSE /\ pc' = Idle
                    /\ last' = [call EXCEPT
                                   !.outcome = "return", !.queried = queried,
                                   !.ret = [modified_set EXCEPT !.study_id = pc.studies[1]]]
    /\ UNCHANGED <<srv, ever, heap, late>>

(***************************************************************************)
(* The program                                                             *)
(***************************************************************************)
Init ==
    /\ srv = [s \in {} |-> <<>>]
    /\ ever = {}
    /\ heap = <<>>
    /\ late = <<>>
    /\ pc = Idle
    /\ last = Call("none", 0, "return")

Objs == 1..Len(heap)
Ids(c) == Range(c.all_instances_ids) \cup Range(Flatten(c.by_series))

Server ==
    \/ \E i \in InstanceIds : ServerAddInstance(i)
    \/ \E i \in InstanceIds : ServerRemoveInstance(i)

Construct ==
    \/ \E study_id \in StudyIds : FromStudyLookup(study_id, NoStudy)
    \/ \E study \in StudyObjects : FromStudyLookup("None", study)
    \/ FromStudyAddSeries
    \/ \E series_id \in SeriesIds : FromSeriesLookup(series_id, "None")
    \/ \E series \in SeriesObjects : FromSeriesLookup("None", series)
    \/ FromSeriesAddSeries
    \/ \E instance_id \in InstanceIds : from_instance(instance_id, "None")
    \/ \E instance \in InstanceObjects : from_instance("None", instance)

Accessors ==
    \/ \E o \in Objs : instances_ids_call(o)
    \/ \E o \in Objs : series_ids_call(o)
    \/ \E o \in Objs, series_id \in SeriesIds : get_instances_ids_call(o, series_id)

Filter ==
    \/ \E o \in Objs : FilterBegin(o)
    \/ \E result \in FilterResults : FilterCall(result)
    \/ UseReturned

Process ==
    \/ \E o \in Objs : ProcessBegin(o)
    \/ \E fails \in BOOLEAN : ProcessCall(fails)

\* the response of a rejected request has no body to read
Modify ==
    \/ \E o \in Objs, keep_source \in BOOLEAN :
          \/ ModifyPost(o, 500, keep_source, <<>>)
          \/ \E resources \in Responses(ever \cup Present(
                    BulkModify(srv, ever, instances_ids(heap[o]), keep_source, 200))) :
                ModifyPost(o, 200, keep_source, resources)
    \/ ModifyRequery

Next ==
    \/ Server
    \/ Construct
    \/ \E o \in Objs, series_id \in SeriesIds : add_series(o, series_id)
    \/ Accessors
    \/ Filter
    \/ \E o \in Objs, status \in {200, 500} : delete(o, status)
    \/ Process
    \/ Modify

Spec == Init /\ [][Next]_vars

(***************************************************************************)
(* The collections by themselves: construction, add_series and             *)
(* filter_instances against a server that holds study S1                   *)
(***************************************************************************)
SourceIds == {"a1", "a2", "b1"}

InitSets ==
    /\ srv \in {[s \in {"A", "B"} |-> IF s = "A" THEN <<"a1", "a2">> ELSE <<"b1">>],
                [s \in {"A"} |-> <<"a1">>]}
    /\ ever = Present(srv)
    /\ heap = <<>>
    /\ late = <<>>
    /\ pc = Idle
    /\ last = Call("none", 0, "return")

NextSets ==
    \/ Construct
    \/ \E o \in Objs, series_id \in SeriesIds : add_series(o, series_id)
    \/ Filter

SpecSets == InitSets /\ [][NextSets]_vars

(***************************************************************************)
(* The same, with process_instances on the collections                     *)
(***************************************************************************)
NextProcess ==
    \/ Construct
    \/ \E o \in Objs, series_id \in SeriesIds : add_series(o, series_id)
    \/ Filter
    \/ Process

SpecProcess == InitSets /\ [][NextProcess]_vars

(***************************************************************************)
(* from_study of a study identifier while other clients store instances    *)
(* in the study                                                            *)
(***************************************************************************)
NextStudy ==
    \/ \E i \in SourceIds : ServerAddInstance(i)
    \/ \E study_id \in StudyIds : FromStudyLookup(study_id, NoStudy)
    \/ FromStudyAddSeries

SpecStudy == Init /\ [][NextStudy]_vars

(***************************************************************************)
(* A collection, once constructed, against the live server: accessors,     *)
(* filter_instances, process_instances and delete while other clients      *)
(* store and delete instances                                              *)
(***************************************************************************)
NextSnapshot ==
    \/ \E i \in SourceIds : ServerAddInstance(i)
    \/ \E i \in SourceIds : ServerRemoveInstance(i)
    \/ Construct
    \/ Accessors
    \/ Filter
    \/ Process
    \/ \E o \in Objs, status \in {200, 500} : delete(o, status)

SpecSnapshot == Init /\ [][NextSnapshot]_vars

(***************************************************************************)
(* modify of a collection of study S1, from the moment from_study or       *)
(* from_series has returned it, while other clients store instances in     *)
(* the series the modification creates, or delete them                     *)
(***************************************************************************)
NextModify ==
    \/ \E i \in {"xm"} : ServerAddInstance(i)
    \/ \E i \in {"a1m"} : ServerRemoveInstance(i)
    \/ Modify

InitModify ==
    /\ srv = [s \in {"A", "B"} |-> IF s = "A" THEN <<"a1">> ELSE <<"b1">>]
    /\ ever = Present(srv)
    /\ heap \in {<<_add_series(_add_series([NewSet EXCEPT !.study_id = "S1", !.id = 1],
                                           "A", srv["A"]), "B", srv["B"])>>,
                  <<_add_series([NewSet EXCEPT !.study_id = "S1", !.id = 1],
                                "A", srv["A"])>>}
    /\ late = <<{}>>
    /\ pc = Idle
    /\ last = Call("none", 0, "return")

SpecModify == InitModify /\ [][NextModify]_vars

(***************************************************************************)
(* Claims                                                                  *)
(***************************************************************************)
\* the flattened list and the by-series mapping describe the same instances
InSync(c) ==
    /\ \A i \in Range(c.all_instances_ids) :
          Cardinality({k \in 1..Len(c.by_series) : i \in Range(c.by_series[k][2])}) = 1
    /\ SumLen(c.by_series) = Len(c.all_instances_ids)

\* C1: in every state reached by a factory followed by add_series and
\* filter_instances calls (also on the collections filter_instances returns),
\* every identifier of the flattened list is in exactly one series' sequence
\* and the per-series lengths add up to the length of the flattened list.
C1_InSync == \A o \in Objs : InSync(heap[o])

\* from_study returns in this step
FromStudyReturns ==
    /\ pc.op = "from_study"
    /\ pc'.op = "idle"
    /\ last'.outcome = "return"

\* C3: while other clients add instances or series to the study, there is
\* an instant between the study lookup of from_study and its last query at
\* which the study on the server has exactly the series and instances of
\* the collection from_study returns.
C3_PointInTime ==
    [][FromStudyReturns => Content(last'.ret) \in pc.hist]_vars

\* filter_instances on the collection o returns in this step: last'.pre is
\* the collection as it was when the call began, last'.keep the instances of
\* which the predicate was true
FilterReturns(o) ==
    /\ \/ FilterBegin(o)
       \/ \E result \in FilterResults : FilterCall(result)
    /\ pc'.op = "idle"
    /\ last'.target = o
    /\ last'.outcome = "return"

\* C4: filter_instances(predicate) partitions the collection: on return the
\* receiver holds exactly the identifiers the predicate keeps, the returned
\* collection exactly the others, the two are disjoint and together they
\* are the receiver's identifiers before the call.
C4_Partition ==
    [][\A o \in Objs :
          FilterReturns(o) =>
              LET keep == last'.keep
                  before == Range(instances_ids(last'.pre))
                  kept == Range(instances_ids(heap'[o]))
                  removed == Range(instances_ids(last'.ret))
              IN  /\ kept = before \cap keep
                  /\ removed = before \ keep
                  /\ kept \cap removed = {}
                  /\ kept \cup removed = before]_vars

\* a step after which the caller still works with the same collection
SameCollection ==
    /\ heap # <<>>
    /\ ~FromStudyAddSeries
    /\ ~FromSeriesAddSeries
    /\ ~\E instance \in InstanceObjects : from_instance("None", instance)
    /\ ~UseReturned

\* identifiers handed to the processor or named in a bulk-delete request
Handled ==
    Range(pc.done) \cup Range(last.processed)
        \cup UNION {Range(last.posts[k].Resources) : k \in 1..Len(last.posts)}

\* C2: once a collection is constructed, whatever other clients store on or
\* delete from the server between the calls of the accessors,
\* filter_instances, process_instances and delete, the collection changes
\* in filter_instances steps only, which only remove identifiers, and an
\* instance that reached the server after the construction is neither
\* passed to the processor nor named in the bulk-delete request.
C2_Snapshot ==
    [][/\ SameCollection /\ heap'[1] # heap[1] =>
            /\ \/ FilterBegin(1)
               \/ \E result \in FilterResults : FilterCall(result)
            /\ Ids(heap'[1]) \subseteq Ids(heap[1])
       /\ heap' # <<>> => Handled' \cap late'[1] = {}]_vars

\* a processor has been called while the series of the collection hold an
\* instance on the server that arrived after the construction
C2_Witness ==
    /\ heap # <<>>
    /\ pc.op = "process_instances"
    /\ pc.done # <<>>
    /\ \E i \in late[1] \cap Present(srv) : SeriesOf(i) \in Range(series_ids(heap[1]))

ChecksPass ==
    /\ last.status = 200
    /\ Len(last.studies) = 1
    /\ Cardinality(Range(last.series)) = Len(series_ids(heap[1]))
    /\ Len(last.instances) = Len(instances_ids(heap[1]))

\* C5: modify returns a collection only when the response has status 200,
\* exactly one Study identifier, as many distinct Series identifiers as the
\* original has series and as many Instance identifiers as the original has
\* instances; when the status is not 200 or one of these checks fails it
\* returns no result.
C5_Checks ==
    last.name = "modify" =>
        /\ last.outcome = "return" => ChecksPass
        /\ ~ChecksPass => last.outcome = "none"

\* C6: modify leaves the collection it is called on as it was, whether it
\* returns a collection, returns no result or raises: its study_id, its
\* by-series mapping and its flattened list are what they were before the
\* call, and so are the objects it is made of.  A collection that modify
\* returns is another object than the receiver, and none of its lists is a
\* list of the receiver.
C6_ReceiverUnchanged ==
    last.name = "modify" =>
        /\ heap[1] = last.pre
        /\ last.outcome = "return" =>
              /\ last.ret.id # 0
              /\ last.ret.id # heap[1].id
              /\ Len(last.ret.lists) = Len(last.ret.by_series)
              /\ Addresses(last.ret) \cap Addresses(heap[1]) = {}

\* modify has returned a collection with other identifiers than the
\* receiver's
C6_Witness ==
    /\ last.name = "modify"
    /\ last.outcome = "return"
    /\ instances_ids(last.ret) # <<>>
    /\ Ids(last.ret) \cap Ids(heap[1]) = {}
    /\ last.ret.study_id # heap[1].study_id

\* C7: a collection that modify returns has as many series as the original
\* and at most as many instances, whatever the response and the server
\* are.
C7_Counts ==
    last.name = "modify" /\ last.outcome = "return" =>
        /\ Len(series_ids(last.ret)) = Len(series_ids(heap[1]))
        /\ Len(instances_ids(last.ret)) <= Len(instances_ids(heap[1]))

\* C8: the collection modify returns has the single Study identifier of the
\* response as its study_id, and each of its series holds exactly the
\* identifiers that are in the instance list queried for that series after
\* the modification and among the Instance identifiers of the response; an
\* instance another client stored between the bulk-modify request and the
\* queries is not in it.
C8_Intersection ==
    last.name = "modify" /\ last.outcome = "return" =>
        /\ last.studies = <<last.ret.study_id>>
        /\ \A k \in 1..Len(last.ret.by_series) :
              LET s == last.ret.by_series[k][1]
                  ids == last.ret.by_series[k][2]
              IN  /\ Range(ids) = Range(DictGet(last.queried, s)) \cap Range(last.instances)
                  /\ Cardinality(Range(ids)) = Len(ids)
        /\ Ids(last.ret) \cap last.added = {}

\* modify has returned a collection with a series in which the query found
\* an instance that another client stored after the bulk-modify request
C8_Witness ==
    /\ last.name = "modify"
    /\ last.outcome = "return"
    /\ \E k \in 1..Len(last.ret.by_series) :
          /\ last.ret.by_series[k][2] # <<>>
          /\ Range(DictGet(last.queried, last.ret.by_series[k][1])) \cap last.added # {}

\* C11: filter_instances with a predicate that is true for every instance
\* removes nothing: the by-series mapping and the flattened list of the
\* receiver are what they were before the call, and the collection it
\* returns holds no instance.
C11_KeepAll ==
    [][\A o \in Objs :
          FilterReturns(o) /\ Range(Flatten(last'.pre.by_series)) \subseteq last'.keep =>
              /\ heap'[o].by_series = last'.pre.by_series
              /\ heap'[o].all_instances_ids = last'.pre.all_instances_ids
              /\ instances_ids(last'.ret) = <<>>]_vars

\* the order of the snapshot: the series in the order of their insertion
\* and, within a series, its instances in their order
SnapshotOrder(c) == Flatten(c.by_series)

\* C12: process_instances calls the processor once for each identifier of
\* the collection, one call at a time, in the order of the snapshot (of the
\* series as inserted and, within a series, of its instances); a call of
\* the processor that fails ends process_instances with that failure, and
\* the processor is called for no later identifier.
C12_ProcessOrder ==
    [][/\ pc'.op = "process_instances" =>
              pc'.done \o pc'.todo = SnapshotOrder(heap'[pc'.target])
       /\ last'.name = "process_instances" /\ last'.outcome = "return" =>
              last'.processed = SnapshotOrder(heap'[last'.target])
       /\ ProcessCall(TRUE) =>
              /\ pc'.op = "idle"
              /\ last'.name = "process_instances"
              /\ last'.outcome = "raise"
              /\ last'.processed = Append(pc.done, Head(pc.todo))]_vars

\* C13: when filter_instances returns, no series of the receiver has an
\* empty sequence: every series of which the predicate rejected all the
\* instances is gone from the receiver's series_ids, and the collection
\* returned has an entry under that series identifier which holds the
\* removed instances of the series.
C13_EmptiedDropped ==
    [][\A o \in Objs :
          FilterReturns(o) =>
              /\ \A k \in 1..Len(heap'[o].by_series) :
                    heap'[o].by_series[k][2] # <<>>
              /\ \A k \in 1..Len(last'.pre.by_series) :
                    LET series_id == last'.pre.by_series[k][1]
                        ids == last'.pre.by_series[k][2]
                    IN  Range(ids) \cap last'.keep = {} =>
                            /\ series_id \notin Range(series_ids(heap'[o]))
                            /\ DictHas(last'.ret.by_series, series_id)
                            /\ get_instances_ids(last'.ret, series_id) = ids]_vars

\* filter_instances has returned from a two-series collection of which the
\* predicate rejected both instances of series A and kept the one of B
C13_Witness ==
    /\ last.name = "filter_instances"
    /\ last.outcome = "return"
    /\ series_ids(heap[1]) = <<"B">>
    /\ series_ids(last.ret) = <<"A", "B">>
    /\ get_instances_ids(last.ret, "A") = <<"a1", "a2">>
    /\ get_instances_ids(last.ret, "B") = <<>>

\* the entry of the mapping d whose instances the predicate is evaluating
\* in its call number n
FailingSeries(d, n) ==
    CHOOSE k \in 1..Len(d) :
        /\ SumLen(SubSeq(d, 1, k - 1)) < n
        /\ n <= SumLen(SubSeq(d, 1, k))

\* C14: when the predicate fails while filter_instances evaluates the
\* instances of a series, filter_instances ends with that failure and
\* returns no collection; the receiver has lost, in its mapping and in its
\* flattened list, which stay in sync, the rejected instances of the series
\* before the failing one and no instance of the failing series or of a
\* later one, and a series before it that lost all its instances is still
\* in the mapping, with an empty sequence.
C14_FailingPredicate ==
    [][FilterCall("raise") =>
          LET o == pc.target
              keep == last'.keep
              before == last'.pre.by_series
              after == heap'[o].by_series
              f == FailingSeries(before, last'.evals)
              rejected == UNION {Range(before[k][2]) \ keep : k \in 1..(f - 1)}
          IN  /\ pc'.op = "idle"
              /\ last'.name = "filter_instances"
              /\ last'.outcome = "raise"
              /\ last'.ret = NewSet
              /\ Len(after) = Len(before)
              /\ \A k \in 1..(f - 1) :
                    after[k] = <<before[k][1],
                                 SelectSeq(before[k][2], LAMBDA i : i \in keep)>>
              /\ \A k \in f..Len(before) : after[k] = before[k]
              /\ Range(instances_ids(heap'[o])) =
                     Range(instances_ids(last'.pre)) \ rejected
              /\ InSync(heap'[o])]_vars

====
